---------------------------- MODULE Spec2Model ----------------------------
(***************************************************************************)
(* A model of pyElli's structure plotter (src/src/berreman4x4/plotter.py)  *)
(* and of the Bragg-mirror validation script                               *)
(* (src/examples/Bragg-mirror/validation-Bragg.py).                        *)
(*                                                                         *)
(* Number representations                                                  *)
(*  - a complex number is a pair <<re, im>> of integers;                   *)
(*  - a thickness is a record [inf, v]: +infinity, or v counts of 1e-4 of  *)
(*    the length unit;                                                     *)
(*  - a depth coordinate of the plotter counts 1e-6 of the length unit     *)
(*    (one thickness count = 100 depth counts), a margin fraction counts   *)
(*    hundredths, so that margin * z_max is exact;                         *)
(*  - the reflection coefficients of the script are fixed-point reals with *)
(*    Precision counts per unit, every division rounding as a finite      *)
(*    precision format does.                                               *)
(***************************************************************************)
EXTENDS Integers, Sequences, FiniteSets, TLC

VARIABLES
    structure,      \* the Structure the caller holds (script: s)
    lastCall,       \* the plotter call made last, with its arguments
    result,         \* the profile the last call returned (<<>>: it returned none)
    ax,             \* the Axes drawStructure returned last ("unset": not called last)
    drawn,          \* what the last drawStructure call built and rendered
    figures         \* number of figures pyplot holds

plotVars == <<structure, lastCall, result, ax, drawn, figures>>

VARIABLES
    sample,         \* the script's literals and the solver's thicknesses, sampled
    calls,          \* the ReflectionCoeff calls of the analytic phase, in order
    pc,             \* position in Script of the phase to run next
    trail,          \* the phases started so far, in order
    err,            \* the uncaught exception that ended the run ("": none)
    N,              \* module global N, the number of interfaces
    n,              \* module global n, the index array (index i at position i+1)
    d,              \* module global d: [kind, val], the thickness array or plot data
    lbda,           \* the wave number 2*pi/lbda of the sampled wavelength
    solved,         \* whether s.evaluate has filled R_ss_0, R_ss, R_pp
    callIdx,        \* the call of calls to make next
    act,            \* locals of the running ReflectionCoeff: Kx, kz, r_ab
    stack,          \* the frames of U, innermost last
    ret,            \* <<value>> just returned by a frame of U, <<>> if none
    coeff,          \* the amplitudes the completed calls returned
    callCount,      \* callCount[k+1]: evaluations of U(k) in the running call
    reads,          \* the indices of r_ab, kz, d read by U in the running call
    compositions    \* composition steps completed in the running call

scriptVars == <<sample, calls, pc, trail, err, N, n, d, lbda, solved, callIdx, act,
                stack, ret, coeff, callCount, reads, compositions>>

vars == <<plotVars, scriptVars>>

-----------------------------------------------------------------------------
(* Bounds of the model *)

MaxItems == 2        \* items (layers or layer groups) in a structure's list
MaxRepeat == 2       \* periods of a repeated layer group
MaxFigures == 2      \* figures created before the caller stops drawing
MaxPeriods == 2      \* periods of the script's TiO2/SiO2 stack (the script: 4)
Precision == 1000    \* fixed-point counts per unit of a reflection coefficient

-----------------------------------------------------------------------------
(* Sequences *)

\* A list comprehension or array expression, evaluated once into a list
List(f) == f \o <<>>

RECURSIVE Concat(_)
\* sum(list_of_lists, []): the lists joined in order
Concat(ss) == IF ss = <<>> THEN <<>> ELSE Head(ss) \o Concat(Tail(ss))

RECURSIVE Times(_, _)
\* list * count: that many copies of the list joined
Times(s, count) == IF count <= 0 THEN <<>> ELSE s \o Times(s, count - 1)

RECURSIVE SumTo(_, _)
\* s[1] + ... + s[i]
SumTo(s, i) == IF i = 0 THEN 0 ELSE SumTo(s, i - 1) + s[i]

\* np.cumsum: running sums
CumSum(s) == List([i \in 1..Len(s) |-> SumTo(s, i)])

SeqMin(s) == CHOOSE x \in {s[i] : i \in 1..Len(s)} : \A j \in 1..Len(s) : x <= s[j]
SeqMax(s) == CHOOSE x \in {s[i] : i \in 1..Len(s)} : \A j \in 1..Len(s) : x >= s[j]

-----------------------------------------------------------------------------
(* Complex numbers as pairs <<re, im>> *)

CMul(a, b) == <<a[1] * b[1] - a[2] * b[2], a[1] * b[2] + a[2] * b[1]>>
CAdd(a, b) == <<a[1] + b[1], a[2] + b[2]>>
CZero == <<0, 0>>

\* The exact square root of a perfect square
ISqrt(x) == CHOOSE r \in 0..x : r * r = x

\* The principal square root of z from its modulus m
RootOf(z, m) ==
    <<ISqrt((m + z[1]) \div 2), (IF z[2] < 0 THEN -1 ELSE 1) * ISqrt((m - z[1]) \div 2)>>

\* numpy.lib.scimath.sqrt: the principal square root, the one with a positive
\* real part, or on the imaginary axis with a non-negative imaginary part
CSqrt(z) == RootOf(z, ISqrt(z[1] * z[1] + z[2] * z[2]))

\* The square root of the other branch
CSqrtNeg(z) == <<-CSqrt(z)[1], -CSqrt(z)[2]>>

-----------------------------------------------------------------------------
(* The solver's materials, layers and structures *)

Inf == [inf |-> TRUE, v |-> 0]
Fin(x) == [inf |-> FALSE, v |-> x]

\* A material with principal indices nx, ny, nz
Material(nx, ny, nz) == [nx |-> nx, ny |-> ny, nz |-> nz]
IsotropicMaterial(index) == Material(index, index, index)
IsIsotropic(m) == m.nx = m.ny /\ m.ny = m.nz

\* material.getTensor: the 3x3 permittivity tensor, diag(nx^2, ny^2, nz^2)
getTensor(m) ==
    << <<CMul(m.nx, m.nx), CZero, CZero>>,
       <<CZero, CMul(m.ny, m.ny), CZero>>,
       <<CZero, CZero, CMul(m.nz, m.nz)>> >>

Layer(m, h) == [kind |-> "layer", material |-> m, d |-> h]
RepeatedLayers(ls, periods, before, after) ==
    [kind |-> "repeated", layers |-> ls, n |-> periods, before |-> before, after |-> after]
Structure(front, ls, back) == [frontHalfSpace |-> front, layers |-> ls, backHalfSpace |-> back]

\* L.getPermittivityProfile of a layer or a layer group: its own (thickness,
\* tensor) entries, a group expanding its periods
LayerProfile(L) ==
    IF L.kind = "layer"
    THEN << <<Fin(L.d), getTensor(L.material)>> >>
    ELSE Times(List([i \in 1..Len(L.layers) |->
                   <<Fin(L.layers[i].d), getTensor(L.layers[i].material)>>]), L.n)

\* e_x of berreman4x4.math: the first Cartesian axis
e_x == << <<1, 0>>, <<0, 0>>, <<0, 0>> >>

-----------------------------------------------------------------------------
(* plotter.py *)

getPermittivityProfileNoBack(s) ==
    LET layers == Concat(List([i \in 1..Len(s.layers) |-> LayerProfile(s.layers[i])]))
        front == <<Inf, getTensor(s.frontHalfSpace)>>
    IN  Concat(<< <<front>>, layers >>)

getPermittivityProfile(s) ==
    LET layers == Concat(List([i \in 1..Len(s.layers) |-> LayerProfile(s.layers[i])]))
        front == <<Inf, getTensor(s.frontHalfSpace)>>
        back == <<Inf, getTensor(s.backHalfSpace)>>
    IN  Concat(<< <<front>>, layers, <<back>> >>)

\* (v.T * eps * v)[0, 0, 0]
QuadForm(v, eps) ==
    LET term(i, j) == CMul(CMul(v[i], eps[i][j]), v[j])
        row(i) == CAdd(CAdd(term(i, 1), term(i, 2)), term(i, 3))
    IN  CAdd(CAdd(row(1), row(2)), row(3))

\* The index profile of a permittivity profile, with the other square root
IndexOfOtherRoot(perm, v) ==
    List([i \in 1..Len(perm) |-> <<perm[i][1], CSqrtNeg(QuadForm(v, perm[i][2]))>>])

\* getIndexProfile, lines 23-25: unzip, one square root per tensor, zip
IndexOf(perm, v) ==
    List([i \in 1..Len(perm) |-> <<perm[i][1], CSqrt(QuadForm(v, perm[i][2]))>>])

getIndexProfile(s, v) == IndexOf(getPermittivityProfile(s), v)

\* One thickness count in depth counts
Depth(h) == 100 * h.v

\* margin * z_max, the margin counted in hundredths
MarginTimes(margin, zmax) == (margin * zmax) \div 100

\* The z_margin of drawStructure without the rule for a zero depth
ZMarginNoRule(margin, z_max) == MarginTimes(margin, z_max)

\* drawStructure, lines 40-43
ZMargin(margin, z_max) == IF z_max # 0 THEN MarginTimes(margin, z_max) ELSE 1

\* drawStructure, lines 38-44: the array z of the thicknesses h
ZOf(h, margin) ==
    LET Hstack(z_layers, z_max) ==
            <<-ZMargin(margin, z_max)>> \o z_layers \o <<z_max + ZMargin(margin, z_max)>>
        WithMax(z_layers) == Hstack(z_layers, z_layers[Len(z_layers)])
    IN  WithMax(<<0>> \o CumSum(List([i \in 1..Len(h) - 2 |-> Depth(h[i + 1])])))

\* drawStructure, lines 35-36: the thicknesses of the index profile
ThicknessesOf(prof) == List([i \in 1..Len(prof) |-> prof[i][1]])

BuildZ(s, margin) == ZOf(ThicknessesOf(getIndexProfile(s, e_x)), margin)

\* The call "_drawStructureGraph" or "_drawStructureSection" drawStructure makes
DispatchBoth(method) == IF method = "section" THEN "section" ELSE "graph"

Dispatch(method) ==
    IF method = "graph" THEN "graph"
    ELSE IF method = "section" THEN "section"
    ELSE "none"

\* _drawStructureGraph / _drawStructureSection: a new figure whose x range is
\* (z.min(), z.max()); no routine: nothing is drawn
Render(routine, z) ==
    IF routine = "none"
    THEN [z |-> z, routine |-> routine, xlim |-> <<>>, figs |-> 0, ax |-> "None"]
    ELSE [z |-> z, routine |-> routine, xlim |-> <<SeqMin(z), SeqMax(z)>>, figs |-> 1,
          ax |-> "Axes"]

\* drawStructure(structure, lbda, unit, method, margin)
drawStructure(s, method, margin) == Render(Dispatch(method), BuildZ(s, margin))

NoCall == [op |-> "none", method |-> "", margin |-> 0, figuresBefore |-> 0]
NoDraw == [z |-> <<>>, routine |-> "none", xlim |-> <<>>, figs |-> 0, ax |-> "None"]

-----------------------------------------------------------------------------
(* The structures, methods and margins the plotter is called with *)

nOne == <<1, 0>>
nAbsorbing == <<2, 1>>
nMetal == <<0, 2>>
nNegative == <<-2, 0>>
nGain == <<0, -1>>
Birefringent == Material(<<1, 0>>, <<2, 0>>, <<2, 0>>)

\* (front, back) half-space materials
HalfSpaces ==
    { <<IsotropicMaterial(nOne), IsotropicMaterial(nAbsorbing)>>,
      <<IsotropicMaterial(nNegative), Birefringent>>,
      <<IsotropicMaterial(nOne), IsotropicMaterial(nGain)>> }

PeriodLayers == <<Layer(IsotropicMaterial(<<3, 0>>), 1), Layer(IsotropicMaterial(nMetal), 2)>>

Items ==
    {Layer(IsotropicMaterial(nAbsorbing), 0), Layer(Birefringent, 3)}
    \cup {RepeatedLayers(PeriodLayers, k, 0, 0) : k \in {0, MaxRepeat}}

RECURSIVE SeqsUpTo(_, _)
SeqsUpTo(S, k) ==
    IF k = 0 THEN {<<>>}
    ELSE LET shorter == SeqsUpTo(S, k - 1)
         IN  shorter \cup {Append(q, x) : q \in shorter, x \in S}

Structures ==
    {Structure(fb[1], ls, fb[2]) : fb \in HalfSpaces, ls \in SeqsUpTo(Items, MaxItems)}

Methods == {"graph", "section", "contour"}
Margins == {15, 100}

-----------------------------------------------------------------------------
(* validation-Bragg.py: module state *)

NoActivation == [Kx |-> 0, kz |-> <<>>, r_ab |-> [bound |-> FALSE, val |-> <<>>], pol |-> ""]
NoReads == [r_ab |-> {}, kz |-> {}, d |-> {}, dKinds |-> {}]
Unbound == [kind |-> "unbound", val |-> <<>>]

\* The script before its first statement
ScriptFresh ==
    /\ pc = 1
    /\ trail = <<>>
    /\ err = ""
    /\ N = 0
    /\ n = <<>>
    /\ d = Unbound
    /\ lbda = 0
    /\ solved = FALSE
    /\ callIdx = 1
    /\ act = NoActivation
    /\ stack = <<>>
    /\ ret = <<>>
    /\ coeff = <<>>
    /\ callCount = <<>>
    /\ reads = NoReads
    /\ compositions = 0

\* No script is run
ScriptIdle ==
    /\ sample = [n_a |-> 1, n_g |-> 1, n_SiO2 |-> 1, n_TiO2 |-> 1, d_SiO2 |-> 1,
                 d_TiO2 |-> 1, periods |-> 0, k0 |-> 1]
    /\ calls = <<>>
    /\ ScriptFresh

-----------------------------------------------------------------------------
(* A caller of the plotter *)

PlotterInit ==
    /\ structure \in Structures
    /\ lastCall = NoCall
    /\ result = <<>>
    /\ ax = "unset"
    /\ drawn = NoDraw
    /\ figures = 0
    /\ ScriptIdle

CallGetPermittivityProfile ==
    /\ lastCall' = [op |-> "getPermittivityProfile", method |-> "", margin |-> 0,
                    figuresBefore |-> figures]
    /\ result' = getPermittivityProfile(structure)
    /\ ax' = "unset"
    /\ drawn' = NoDraw
    /\ UNCHANGED <<structure, figures, scriptVars>>

CallGetIndexProfile ==
    /\ lastCall' = [op |-> "getIndexProfile", method |-> "", margin |-> 0,
                    figuresBefore |-> figures]
    /\ result' = getIndexProfile(structure, e_x)
    /\ ax' = "unset"
    /\ drawn' = NoDraw
    /\ UNCHANGED <<structure, figures, scriptVars>>

CallDrawStructure ==
    \E method \in Methods, margin \in Margins :
        \E r \in {drawStructure(structure, method, margin)} :
            /\ figures + r.figs <= MaxFigures
            /\ lastCall' = [op |-> "drawStructure", method |-> method, margin |-> margin,
                            figuresBefore |-> figures]
            /\ result' = <<>>
            /\ ax' = r.ax
            /\ drawn' = r
            /\ figures' = figures + r.figs
            /\ UNCHANGED <<structure, scriptVars>>

PlotterNext ==
    \/ CallGetPermittivityProfile
    \/ CallGetIndexProfile
    \/ CallDrawStructure

SpecPlotter == PlotterInit /\ [][PlotterNext]_vars

-----------------------------------------------------------------------------
(* validation-Bragg.py: arrays and arithmetic *)

\* a[i] of a numpy array, i counted from 0
At0(a, i) == a[i + 1]

\* np.ones(len)
Ones(len) == List([i \in 1..len |-> 1])

\* a[start::2] = v
SetSlice(a, start, v) ==
    List([i \in 1..Len(a) |->
            IF i - 1 >= start /\ (i - 1 - start) % 2 = 0 THEN v ELSE a[i]])

\* a[i] = v
SetAt(a, i, v) == [a EXCEPT ![i + 1] = v]

\* The index array with the slices of the two stack materials exchanged
BuildNSwapped(len, s) ==
    SetAt(SetSlice(SetSlice(SetAt(Ones(len), 0, s.n_a), 1, s.n_SiO2), 2, s.n_TiO2),
          len - 1, s.n_g)

\* Lines 63-67: n = ones; n[0] = n_a; n[1::2] = n_TiO2; n[2::2] = n_SiO2; n[-1] = n_g
BuildN(len, s) ==
    SetAt(SetSlice(SetSlice(SetAt(Ones(len), 0, s.n_a), 1, s.n_TiO2), 2, s.n_SiO2),
          len - 1, s.n_g)

\* Lines 71-73: d = ones; d[1::2] = L_TiO2.d; d[2::2] = L_SiO2.d
BuildD(len, LT, LS) == SetSlice(SetSlice(Ones(len), 1, LT.d), 2, LS.d)

\* Fixed-point reals: x is held as x * Precision, a quotient rounds down
One == Precision
FMul(a, b) == (a * b) \div Precision
FDiv(a, b) == (a * Precision) \div b

\* np.exp(2j * x) for x a whole number of quarter turns (pi/2): +1 or -1
Exp2j(x) == IF x % 2 = 0 THEN One ELSE -One

\* The sine of the incidence angle as <<numerator, denominator>>: 0, or the
\* oblique angle at which n[0] * sin is 12, where every kz is rational
SinOf(angle) == IF angle = "0" THEN <<0, 1>> ELSE <<12, At0(n, 0)>>

\* Line 81: Kx = n[0] * sin(incidence_angle)
KxOf(angle) == (At0(n, 0) * SinOf(angle)[1]) \div SinOf(angle)[2]

\* Line 83: kz = 2*pi/lbda_list * sqrt(n**2 - Kx**2)
KzOf(Kx) == List([i \in 1..Len(n) |-> lbda * ISqrt(n[i] * n[i] - Kx * Kx)])

\* Line 92 without the sign: np.diff(kz) / (kz[:-1] + kz[1:])
FresnelSNoSign(kz) ==
    List([p \in 1..Len(kz) - 1 |-> FDiv(kz[p + 1] - kz[p], kz[p] + kz[p + 1])])

\* Line 92: r_ab = -np.diff(kz) / (kz[:-1] + kz[1:])
FresnelS(kz) ==
    List([p \in 1..Len(kz) - 1 |-> FDiv(-(kz[p + 1] - kz[p]), kz[p] + kz[p + 1])])

\* Lines 94-95: r_ab for polarisation p
FresnelP(kz) ==
    List([p \in 1..Len(kz) - 1 |->
            FDiv(kz[p] * n[p + 1] * n[p + 1] - kz[p + 1] * n[p] * n[p],
                 kz[p] * n[p + 1] * n[p + 1] + kz[p + 1] * n[p] * n[p])])

\* The if/elif with a final else that falls back to polarisation s
FresnelElseS(pol, kz) ==
    IF pol = "p" THEN [bound |-> TRUE, val |-> FresnelP(kz)]
    ELSE [bound |-> TRUE, val |-> FresnelS(kz)]

\* Lines 91-95: r_ab is assigned for "s" and for "p", and for nothing else
Fresnel(pol, kz) ==
    IF pol = "s" THEN [bound |-> TRUE, val |-> FresnelS(kz)]
    ELSE IF pol = "p" THEN [bound |-> TRUE, val |-> FresnelP(kz)]
    ELSE [bound |-> FALSE, val |-> <<>>]

\* Lines 81-95: the locals of ReflectionCoeff
Activation(angle, pol) ==
    LET Locals(Kx, kz) == [Kx |-> Kx, kz |-> kz, r_ab |-> Fresnel(pol, kz), pol |-> pol]
        WithKx(Kx) == Locals(Kx, KzOf(Kx))
    IN  WithKx(KxOf(angle))

\* The phase index of U with the layer before: kz[p-1], d[p-1]
PhaseIndexBefore(k) == k

\* Line 103: p = k + 1, the index of kz and d in the phase factor
PhaseIndex(k) == k + 1

\* Lines 107-108, numerator: r_ab[p-1] + U(p) * exp(2j*kz[p]*d[p])
Numerator(k, u) ==
    At0(act.r_ab.val, k)
        + FMul(u, Exp2j(At0(act.kz, PhaseIndex(k)) * At0(d.val, PhaseIndex(k))))

\* The denominator with the sign of the product changed
DenominatorMinus(k, u) ==
    One - FMul(FMul(At0(act.r_ab.val, k), u),
               Exp2j(At0(act.kz, PhaseIndex(k)) * At0(d.val, PhaseIndex(k))))

\* Lines 107-108, denominator: 1 + r_ab[p-1] * U(p) * exp(2j*kz[p]*d[p])
Denominator(k, u) ==
    One + FMul(FMul(At0(act.r_ab.val, k), u),
               Exp2j(At0(act.kz, PhaseIndex(k)) * At0(d.val, PhaseIndex(k))))

Frame(k) == [k |-> k, st |-> "enter", num |-> 0]

Top == stack[Len(stack)]
Pop == SubSeq(stack, 1, Len(stack) - 1)

-----------------------------------------------------------------------------
(* validation-Bragg.py: the script *)

\* The phases of the script in source order
ScriptPlotFirst ==
    <<"construct", "arrays", "solver", "plot_solver", "analytic", "plot_analytic",
      "drawStructure", "show">>

Script ==
    <<"construct", "arrays", "analytic", "solver", "plot_solver", "plot_analytic",
      "drawStructure", "show">>

At(label) == pc <= Len(Script) /\ Script[pc] = label /\ err = ""

\* Lines 115-117
ScriptCalls ==
    << [angle |-> "0", pol |-> "s"], [angle |-> "oblique", pol |-> "s"],
       [angle |-> "oblique", pol |-> "p"] >>

\* The script's calls, and single calls with other arguments
CallPlans ==
    {ScriptCalls, << [angle |-> "oblique", pol |-> "x"] >>, << [angle |-> "0", pol |-> ""] >>,
     << [angle |-> "0", pol |-> "p"] >>}

IndexSamples ==
    { [n_a |-> 13, n_g |-> 15, n_SiO2 |-> 15, n_TiO2 |-> 20],
      [n_a |-> 15, n_g |-> 13, n_SiO2 |-> 13, n_TiO2 |-> 20] }

Samples ==
    { [n_a |-> ix.n_a, n_g |-> ix.n_g, n_SiO2 |-> ix.n_SiO2, n_TiO2 |-> ix.n_TiO2,
       d_SiO2 |-> th[1], d_TiO2 |-> th[2], periods |-> per, k0 |-> k] :
         ix \in IndexSamples, th \in {<<1, 1>>, <<2, 1>>}, per \in 0..MaxPeriods,
         k \in {1, 2} }

\* Lines 23-46
air == IsotropicMaterial(<<sample.n_a, 0>>)
glass == IsotropicMaterial(<<sample.n_g, 0>>)
SiO2 == IsotropicMaterial(<<sample.n_SiO2, 0>>)
TiO2 == IsotropicMaterial(<<sample.n_TiO2, 0>>)
L_SiO2 == Layer(SiO2, sample.d_SiO2)
L_TiO2 == Layer(TiO2, sample.d_TiO2)
\* Line 52
Layerstack == RepeatedLayers(<<L_TiO2, L_SiO2>>, sample.periods, 0, 0)

NoStructure == [frontHalfSpace |-> "unbound", layers |-> <<>>, backHalfSpace |-> "unbound"]

ScriptInit ==
    /\ sample \in Samples
    /\ calls \in CallPlans
    /\ ScriptFresh
    /\ structure = NoStructure
    /\ lastCall = NoCall
    /\ result = <<>>
    /\ ax = "unset"
    /\ drawn = NoDraw
    /\ figures = 0

\* Lines 21-58: materials, layers, Layerstack, N, s
Construct ==
    /\ At("construct")
    /\ N' = 2 * Layerstack.n + 1
    /\ structure' = Structure(air, <<Layerstack>>, glass)
    /\ pc' = pc + 1
    /\ trail' = Append(trail, "construct")
    /\ UNCHANGED <<lastCall, result, ax, drawn, figures, sample, calls, err, n, d, lbda,
                   solved, callIdx, act, stack, ret, coeff, callCount, reads,
                   compositions>>

\* Lines 63-76: n, d, lbda_list
BuildArrays ==
    /\ At("arrays")
    /\ n' = BuildN(N + 1, sample)
    /\ d' = [kind |-> "thickness", val |-> BuildD(N + 1, L_TiO2, L_SiO2)]
    /\ lbda' = sample.k0
    /\ pc' = pc + 1
    /\ trail' = Append(trail, "arrays")
    /\ UNCHANGED <<plotVars, sample, calls, err, N, solved, callIdx, act, stack, ret,
                   coeff, callCount, reads, compositions>>

\* Lines 79-95 and 111: ReflectionCoeff is entered and calls U(0)
CallReflectionCoeff ==
    /\ At("analytic")
    /\ stack = <<>>
    /\ ret = <<>>
    /\ callIdx <= Len(calls)
    /\ act' = Activation(calls[callIdx].angle, calls[callIdx].pol)
    /\ stack' = <<Frame(0)>>
    /\ callCount' = [i \in 1..N |-> IF i = 1 THEN 1 ELSE 0]
    /\ reads' = NoReads
    /\ compositions' = 0
    /\ trail' = IF callIdx = 1 THEN Append(trail, "analytic") ELSE trail
    /\ UNCHANGED <<plotVars, sample, calls, pc, err, N, n, d, lbda, solved, callIdx,
                   ret, coeff>>

\* Lines 103-105 with r_ab unbound, or 107: the first read of r_ab raises NameError
UNameError ==
    /\ stack # <<>>
    /\ err = ""
    /\ Top.st = "enter"
    /\ ~act.r_ab.bound
    /\ err' = "NameError"
    /\ stack' = <<>>
    /\ UNCHANGED <<plotVars, sample, calls, pc, trail, N, n, d, lbda, solved, callIdx,
                   act, ret, coeff, callCount, reads, compositions>>

\* Lines 103-105, 109: p == N, U returns r_ab[N-1]
UBase ==
    /\ stack # <<>>
    /\ err = ""
    /\ Top.st = "enter"
    /\ act.r_ab.bound
    /\ Top.k + 1 = N
    /\ ret' = <<At0(act.r_ab.val, N - 1)>>
    /\ reads' = [reads EXCEPT !.r_ab = @ \cup {N - 1}]
    /\ stack' = Pop
    /\ UNCHANGED <<plotVars, sample, calls, pc, trail, err, N, n, d, lbda, solved,
                   callIdx, act, coeff, callCount, compositions>>

\* Line 107: r_ab[p-1] is read and U(p) is called for the numerator
UFirstCall ==
    /\ stack # <<>>
    /\ err = ""
    /\ Top.st = "enter"
    /\ act.r_ab.bound
    /\ Top.k + 1 # N
    /\ reads' = [reads EXCEPT !.r_ab = @ \cup {Top.k}]
    /\ stack' = Append([stack EXCEPT ![Len(stack)].st = "first"], Frame(Top.k + 1))
    /\ callCount' = [callCount EXCEPT ![Top.k + 2] = @ + 1]
    /\ UNCHANGED <<plotVars, sample, calls, pc, trail, err, N, n, d, lbda, solved,
                   callIdx, act, ret, coeff, compositions>>

\* Lines 107-108: the numerator is completed with kz[p], d[p]; r_ab[p-1] is
\* read again and U(p) is called again for the denominator. kz[p] * d[p] with
\* d rebound to plot data raises ValueError
USecondCall ==
    /\ stack # <<>>
    /\ err = ""
    /\ Top.st = "first"
    /\ ret # <<>>
    /\ reads' = [reads EXCEPT !.kz = @ \cup {PhaseIndex(Top.k)},
                              !.d = @ \cup {PhaseIndex(Top.k)},
                              !.dKinds = @ \cup {d.kind},
                              !.r_ab = @ \cup {Top.k}]
    /\ ret' = <<>>
    /\ IF d.kind = "thickness"
       THEN /\ stack' = Append([stack EXCEPT ![Len(stack)].st = "second",
                                             ![Len(stack)].num = Numerator(Top.k, ret[1])],
                               Frame(Top.k + 1))
            /\ callCount' = [callCount EXCEPT ![Top.k + 2] = @ + 1]
            /\ err' = err
       ELSE /\ stack' = <<>>
            /\ callCount' = callCount
            /\ err' = "ValueError"
    /\ UNCHANGED <<plotVars, sample, calls, pc, trail, N, n, d, lbda, solved, callIdx,
                   act, coeff, compositions>>

\* Lines 108-109: the denominator is completed, the quotient is returned
UReturn ==
    /\ stack # <<>>
    /\ err = ""
    /\ Top.st = "second"
    /\ ret # <<>>
    /\ reads' = [reads EXCEPT !.kz = @ \cup {PhaseIndex(Top.k)},
                              !.d = @ \cup {PhaseIndex(Top.k)},
                              !.dKinds = @ \cup {d.kind}]
    /\ ret' = <<FDiv(Top.num, Denominator(Top.k, ret[1]))>>
    /\ compositions' = compositions + 1
    /\ stack' = Pop
    /\ UNCHANGED <<plotVars, sample, calls, pc, trail, err, N, n, d, lbda, solved,
                   callIdx, act, coeff, callCount>>

\* Lines 111, 115-117: U(0) is returned; the caller squares its modulus
ReturnReflectionCoeff ==
    /\ At("analytic")
    /\ stack = <<>>
    /\ ret # <<>>
    /\ coeff' = Append(coeff, ret[1])
    /\ ret' = <<>>
    /\ callIdx' = callIdx + 1
    /\ pc' = IF callIdx = Len(calls) THEN pc + 1 ELSE pc
    /\ UNCHANGED <<plotVars, sample, calls, trail, err, N, n, d, lbda, solved, act,
                   stack, callCount, reads, compositions>>

\* Lines 123-131: s.evaluate at both angles; R_ss_0, R_ss, R_pp
Solve ==
    /\ At("solver")
    /\ solved' = TRUE
    /\ pc' = pc + 1
    /\ trail' = Append(trail, "solver")
    /\ UNCHANGED <<plotVars, sample, calls, err, N, n, d, lbda, callIdx, act, stack,
                   ret, coeff, callCount, reads, compositions>>

\* Lines 136-142: the figure; d is rebound to the solver's curves and plotted
PlotSolver ==
    /\ At("plot_solver")
    /\ trail' = Append(trail, "plot_solver")
    /\ IF solved
       THEN /\ d' = [kind |-> "plot", val |-> <<"R_ss_0", "R_ss", "R_pp">>]
            /\ pc' = pc + 1
            /\ err' = err
       ELSE /\ d' = d
            /\ pc' = pc
            /\ err' = "NameError"
    /\ figures' = figures + 1
    /\ UNCHANGED <<structure, lastCall, result, ax, drawn, sample, calls, N, n, lbda,
                   solved, callIdx, act, stack, ret, coeff, callCount, reads,
                   compositions>>

\* Lines 144-156: d is rebound to the analytic curves and plotted
PlotAnalytic ==
    /\ At("plot_analytic")
    /\ trail' = Append(trail, "plot_analytic")
    /\ IF Len(coeff) = Len(calls)
       THEN /\ d' = [kind |-> "plot", val |-> <<"R_th_ss_0", "R_th_ss", "R_th_pp">>]
            /\ pc' = pc + 1
            /\ err' = err
       ELSE /\ d' = d
            /\ pc' = pc
            /\ err' = "NameError"
    /\ UNCHANGED <<plotVars, sample, calls, N, n, lbda, solved, callIdx, act, stack,
                   ret, coeff, callCount, reads, compositions>>

\* Line 158: bmplot.drawStructure(s), method "graph", margin 0.15
DrawStructure ==
    /\ At("drawStructure")
    /\ \E r \in {drawStructure(structure, "graph", 15)} :
            /\ lastCall' = [op |-> "drawStructure", method |-> "graph", margin |-> 15,
                            figuresBefore |-> figures]
            /\ result' = <<>>
            /\ ax' = r.ax
            /\ drawn' = r
            /\ figures' = figures + r.figs
    /\ pc' = pc + 1
    /\ trail' = Append(trail, "drawStructure")
    /\ UNCHANGED <<structure, sample, calls, err, N, n, d, lbda, solved, callIdx, act,
                   stack, ret, coeff, callCount, reads, compositions>>

\* Line 159: plt.show() blocks until the figures are closed
Show ==
    /\ At("show")
    /\ pc' = pc + 1
    /\ trail' = Append(trail, "show")
    /\ UNCHANGED <<plotVars, sample, calls, err, N, n, d, lbda, solved, callIdx, act,
                   stack, ret, coeff, callCount, reads, compositions>>

ScriptNext ==
    \/ Construct
    \/ BuildArrays
    \/ CallReflectionCoeff
    \/ UNameError
    \/ UBase
    \/ UFirstCall
    \/ USecondCall
    \/ UReturn
    \/ ReturnReflectionCoeff
    \/ Solve
    \/ PlotSolver
    \/ PlotAnalytic
    \/ DrawStructure
    \/ Show

SpecBragg == ScriptInit /\ [][ScriptNext]_vars

\* A step of the body of U
UStep == UBase \/ UFirstCall \/ USecondCall \/ UReturn

\* The interpreter keeps executing a started evaluation of U
SpecBraggFair == SpecBragg /\ WF_vars(UStep)

-----------------------------------------------------------------------------
(* The finite layers of a structure, counted and indexed one by one *)

ItemCount(it) == IF it.kind = "layer" THEN 1 ELSE it.n * Len(it.layers)

RECURSIVE NumLayers(_)
NumLayers(items) ==
    IF items = <<>> THEN 0 ELSE ItemCount(Head(items)) + NumLayers(Tail(items))

RECURSIVE LayerAt(_, _)
\* The i-th finite layer (1 <= i <= NumLayers(items)) in stack order
LayerAt(items, i) ==
    IF i <= ItemCount(Head(items))
    THEN IF Head(items).kind = "layer"
         THEN Head(items)
         ELSE Head(items).layers[((i - 1) % Len(Head(items).layers)) + 1]
    ELSE LayerAt(Tail(items), i - ItemCount(Head(items)))

\* The material of the i-th entry of a profile: front, layers, back
MaterialAt(s, i) ==
    IF i = 1 THEN s.frontHalfSpace
    ELSE IF i = NumLayers(s.layers) + 2 THEN s.backHalfSpace
    ELSE LayerAt(s.layers, i - 1).material

RECURSIVE DepthTo(_, _)
\* The depth, in depth counts, below the first k finite layers
DepthTo(items, k) ==
    IF k = 0 THEN 0 ELSE DepthTo(items, k - 1) + 100 * LayerAt(items, k).d

Principal(index) == index[1] > 0 \/ (index[1] = 0 /\ index[2] >= 0)

-----------------------------------------------------------------------------
(* Claims about the plotter *)

\* C1: getPermittivityProfile returns exactly L+2 entries for a structure of L
\* finite layers (groups expanded): the front half-space, the layers in stack
\* order, the back half-space; the first and the last thickness are +infinity
\* and every entry in between is the layer's own (thickness, tensor).
C1_ProfileShape ==
    lastCall.op = "getPermittivityProfile" =>
        /\ Len(result) = NumLayers(structure.layers) + 2
        /\ result[1] = <<Inf, getTensor(structure.frontHalfSpace)>>
        /\ result[Len(result)] = <<Inf, getTensor(structure.backHalfSpace)>>
        /\ \A i \in 1..NumLayers(structure.layers) :
              /\ ~result[i + 1][1].inf
              /\ result[i + 1][1].v = LayerAt(structure.layers, i).d
              /\ result[i + 1][2] = getTensor(LayerAt(structure.layers, i).material)

C1_Witness ==
    /\ lastCall.op = "getPermittivityProfile"
    /\ Len(structure.layers) = 2
    /\ structure.layers[1].kind = "repeated"
    /\ structure.layers[1].n >= 2
    /\ structure.layers[2].kind = "layer"
    /\ Len(result) = 2 * structure.layers[1].n + 3

\* C2: drawStructure with a method other than "graph" or "section" returns
\* None, calls neither rendering routine and creates no figure.
C2_UnknownMethodReturnsNone ==
    (lastCall.op = "drawStructure" /\ lastCall.method \notin {"graph", "section"}) =>
        /\ ax = "None"
        /\ drawn.routine = "none"
        /\ figures = lastCall.figuresBefore

C2_Witness ==
    /\ lastCall.op = "drawStructure"
    /\ lastCall.method = "contour"
    /\ ax = "None"
    /\ NumLayers(structure.layers) > 0

\* C3: drawStructure builds z = [-m, 0, h1, h1+h2, ..., D, D+m] with D the sum
\* of the finite thicknesses and m = margin * D when D # 0, else 1e-6 (one
\* depth count); a structure of two half-spaces gets exactly [-1e-6, 1e-6].
C3_DepthCoordinates ==
    lastCall.op = "drawStructure" =>
        LET L == NumLayers(structure.layers)
            D == DepthTo(structure.layers, L)
            m == IF D # 0 THEN (lastCall.margin * D) \div 100 ELSE 1
        IN  /\ Len(drawn.z) = L + 3
            /\ drawn.z[1] = -m
            /\ \A k \in 0..L : drawn.z[k + 2] = DepthTo(structure.layers, k)
            /\ drawn.z[L + 3] = D + m
            /\ L = 0 => drawn.z = <<-1, 0, 1>>
            /\ (L = 0 /\ drawn.routine # "none") => drawn.xlim = <<-1, 1>>

C3_Witness ==
    /\ lastCall.op = "drawStructure"
    /\ structure.layers = <<>>
    /\ drawn.routine = "graph"
    /\ drawn.xlim = <<-1, 1>>

-----------------------------------------------------------------------------
(* Claims about validation-Bragg.py *)

\* U(0) has returned to ReflectionCoeff and the value is not yet consumed
Returned == stack = <<>> /\ ret # <<>>

\* C5: with a single interface (N = 1) the s-polarised call returns
\* U(0) = r_ab[0] = (kz0 - kz1) / (kz0 + kz1), at either angle and wavenumber,
\* with one evaluation of U, no composition step and no phase factor read.
C5_SingleInterfaceIsFresnel ==
    (Returned /\ N = 1 /\ act.pol = "s") =>
        /\ ret[1] = FDiv(At0(act.kz, 0) - At0(act.kz, 1), At0(act.kz, 0) + At0(act.kz, 1))
        /\ ret[1] = At0(act.r_ab.val, 0)
        /\ compositions = 0
        /\ reads.kz = {} /\ reads.d = {}
        /\ callCount = <<1>>

C5_Witness ==
    /\ Returned /\ N = 1 /\ act.pol = "s"
    /\ act.Kx # 0
    /\ ret[1] < 0

\* C6 as claimed: a call with a polarisation other than "s" or "p" raises no
\* error.
C6_BadPolarisationRaisesNothing ==
    (act # NoActivation /\ act.pol \notin {"s", "p"}) => err = ""

\* C6 as amended: a call with a polarisation other than "s" or "p" binds no
\* r_ab, reads no array, returns no coefficient, and ends in NameError at the
\* first read of r_ab in U(0).
C6_BadPolarisationNameError ==
    (act # NoActivation /\ act.pol \notin {"s", "p"}) =>
        /\ ~act.r_ab.bound
        /\ ret = <<>> /\ coeff = <<>>
        /\ reads = NoReads
        /\ compositions = 0
        /\ IF stack = <<>> THEN err = "NameError" ELSE stack = <<Frame(0)>> /\ err = ""

C6_Witness ==
    /\ act # NoActivation /\ act.pol = "x"
    /\ err = "NameError"
    /\ coeff = <<>>

\* C7: for P >= 1 periods and N = 2P + 1 the index array has N + 1 entries,
\* n[0] the front index, n[N] the back index, TiO2 at odd and SiO2 at even
\* interior positions, equal position by position to the index profile of
\* the Structure; d[i] is the thickness of the same profile entry for
\* 1 <= i <= N - 1.
C7_ArraysMatchStructure ==
    (n # <<>> /\ sample.periods >= 1) =>
        \E prof \in {getIndexProfile(structure, e_x)} :
            /\ N = 2 * sample.periods + 1
            /\ Len(n) = N + 1 /\ Len(prof) = N + 1
            /\ At0(n, 0) = sample.n_a /\ At0(n, N) = sample.n_g
            /\ \A i \in 1..N - 1 :
                    At0(n, i) = IF i % 2 = 1 THEN sample.n_TiO2 ELSE sample.n_SiO2
            /\ \A i \in 0..N : <<At0(n, i), 0>> = prof[i + 1][2]
            /\ d.kind = "thickness" =>
                    /\ Len(d.val) = N + 1
                    /\ \A i \in 1..N - 1 : Fin(At0(d.val, i)) = prof[i + 1][1]

C7_Witness ==
    /\ n # <<>> /\ sample.periods = 2
    /\ sample.d_SiO2 # sample.d_TiO2
    /\ d.kind = "thickness"
    /\ Len(getIndexProfile(structure, e_x)) = 6

\* The loop of the claim: acc := r_ab[N-1]; for k = N-2 down to 0:
\* acc := (r_ab[k] + acc*ph[k+1]) / (1 + r_ab[k]*acc*ph[k+1])
Ph(p) == Exp2j(At0(act.kz, p) * At0(d.val, p))

RECURSIVE LoopFrom(_, _)
LoopFrom(k, acc) ==
    IF k < 0 THEN acc
    ELSE LoopFrom(k - 1, FDiv(At0(act.r_ab.val, k) + FMul(acc, Ph(k + 1)),
                              One + FMul(FMul(At0(act.r_ab.val, k), acc), Ph(k + 1))))

ReverseAccumulation == LoopFrom(N - 2, At0(act.r_ab.val, N - 1))

\* C8 as claimed: when U(0) has returned, U(k) was evaluated exactly once for
\* each k = 0..N-1.
C8_EachUEvaluatedOnce ==
    Returned => \A k \in 0..N - 1 : callCount[k + 1] = 1

\* C8 as amended: every started U(0) with r_ab bound returns; when it has
\* returned, U(k) was evaluated 2^k times for each k = 0..N-1, with N - 1
\* composition steps on the way to each result, and the value equals the
\* reverse accumulation loop.
C8_RecursionIsReverseAccumulation ==
    /\ [](Returned =>
            /\ \A k \in 0..N - 1 : callCount[k + 1] = 2 ^ k
            /\ compositions = 2 ^ (N - 1) - 1
            /\ ret[1] = ReverseAccumulation)
    /\ ((stack # <<>> /\ act.r_ab.bound) ~> Returned)

C8_Witness ==
    /\ Returned /\ N = 5
    /\ callCount = <<1, 2, 4, 8, 16>>
    /\ ret[1] # At0(act.r_ab.val, 0)

\* C9: during an evaluation of U(0) over arrays of N + 1 entries, r_ab[k] is
\* read only for 0 <= k <= N-1, kz[p] and d[p] only for 1 <= p <= N-1, all
\* inside the arrays; d[0] and d[N] are never read.
C9_ReadsInBounds ==
    (act # NoActivation /\ act.r_ab.bound) =>
        /\ Len(act.kz) = N + 1 /\ Len(act.r_ab.val) = N
        /\ d.kind = "thickness" => Len(d.val) = N + 1
        /\ reads.r_ab \subseteq 0..N - 1
        /\ reads.kz \subseteq 1..N - 1
        /\ reads.d \subseteq 1..N - 1
        /\ 0 \notin reads.d /\ N \notin reads.d

C9_Witness ==
    /\ Returned /\ N = 5
    /\ reads.r_ab = 0..4
    /\ reads.kz = 1..4 /\ reads.d = 1..4

\* C10: the phases run in the order construct, arrays and analytic
\* evaluations, solver, rendering, show; d is rebound to plot data only after
\* every analytic evaluation has returned, and every read of d by U sees the
\* thickness array.
C10_PhaseOrder ==
    /\ \E len \in 0..8 :
           trail = SubSeq(<<"construct", "arrays", "analytic", "solver", "plot_solver",
                            "plot_analytic", "drawStructure", "show">>, 1, len)
    /\ reads.dKinds \subseteq {"thickness"}
    /\ stack # <<>> => d.kind = "thickness"
    /\ d.kind = "plot" => (Len(coeff) = Len(calls) /\ stack = <<>> /\ ret = <<>>)
    /\ ax # "unset" => d.kind = "plot"

C10_Witness ==
    /\ calls = ScriptCalls /\ Len(coeff) = 3
    /\ d.kind = "plot"
    /\ reads.dKinds = {"thickness"}
    /\ Len(trail) = 8 /\ pc = 9
    /\ err = ""

====
